---- MODULE Spec2Model ----
(***************************************************************************)
(* Model of Kathara's EventDispatcher (src/Kathara/event/EventDispatcher.py)*)
(*                                                                         *)
(* The dispatcher is a lazily created singleton holding a dict             *)
(*     events : event name -> list of (run_callback, unregister_callback)  *)
(* Every call is a frame on the calling thread's stack.  A callback that   *)
(* dispatch or unregister invokes is foreign code: it may return, raise,   *)
(* or call back into the dispatcher (a nested frame).                      *)
(*                                                                         *)
(* A Python `for` loop iterates the list OBJECT it evaluated at loop       *)
(* start, position by position: entries appended to that object meanwhile  *)
(* are visited, and `del self.events[event]` only removes the dict key,    *)
(* the loop keeps walking the removed object.  A frame is therefore        *)
(* `att`ached to the live list of its event until the key is deleted, and  *)
(* from then on walks its private copy `lst` of the removed object.        *)
(***************************************************************************)
EXTENDS Integers, Sequences, FiniteSets, TLC

\* ---------------------------------------------------------------- bounds
NThreads == 2      \* threads of the concurrent specification
MaxDepth == 2      \* frames on one thread's stack (call + re-entrant calls)
MaxLen == 2        \* entries in one event's list

Threads == 1..NThreads
SeqThreads == {1}
InstIds == 1..(NThreads + 1)
Events == {"a", "b"}
Subs == {"S1", "S2", "S3"}
MethodArgs == {"None", "", "run", "handle"}
\* the named arguments handed to dispatch: dispatch("e", x=1, y="a"), and
\* dispatch("e", x=1) beside it where the arguments are what is checked
KwArgs == [x |-> 1, y |-> "a"]
Payloads == {[x |-> 1], KwArgs}

\* ------------------------------------------------------------ Python values
None == 0
NoCallback == <<>>
EmptyDict == [x \in {} |-> <<>>]

\* The attributes of the subscriber objects handed to register.
Attrs(obj) ==
    CASE obj = "S1" -> {"run"}
      [] obj = "S2" -> {"handle", "unregister"}
      [] obj = "S3" -> {"run", "unregister"}

hasattr(obj, name) == name \in Attrs(obj)

\* 'run' if not method else method      (None and "" are falsy)
NotifyName(method) == IF method \in {"None", ""} THEN "run" ELSE method

\* The tuple register appends; `ev` is a ghost field: the event registered to.
MakeEntry(event, obj, method) ==
    [run   |-> <<obj, NotifyName(method)>>,
     unreg |-> IF hasattr(obj, "unregister") THEN <<obj, "unregister">> ELSE NoCallback,
     ev    |-> event]

\* dict helpers
HasKey(d, k) == k \in DOMAIN d
SetKey(d, k, v) == [x \in (DOMAIN d) \cup {k} |-> IF x = k THEN v ELSE d[x]]
DelKey(d, k) == [x \in (DOMAIN d) \ {k} |-> d[x]]

VARIABLES
    instance,   \* EventDispatcher.__instance: None or an instance id
    nobj,       \* number of dispatcher objects whose `events` slot was set
    events,     \* events[i]: the dict of instance i
    regOrder,   \* ghost: regOrder[i][e], entries successfully registered to e
                \* and not removed since, in the order of the register calls
    aborted,    \* ghost: the <<i, e>> whose list has been through an unregister
                \* call that an exception left, and is still in the dict
    stack,      \* stack[t]: the frames of thread t, innermost last
    ref         \* ref[t]: the instance thread t obtained last, or None

vars == <<instance, nobj, events, regOrder, aborted, stack, ref>>

\* ------------------------------------------------------------------ frames
Frame(op, pc, self, e) ==
    [op |-> op, pc |-> pc, self |-> self, ev |-> e,
     idx |-> 0, att |-> FALSE, lst |-> <<>>,
     inv |-> <<>>, snap |-> <<>>, ev0 |-> EmptyDict, nested |-> FALSE,
     kw |-> <<>>, args |-> <<>>,
     err |-> "", obj |-> None, ret |-> None, res |-> <<>>, inst0 |-> None]

Top(t) == stack[t][Len(stack[t])]
Depth(t) == Len(stack[t])
Idle(t) == stack[t] = <<>>

\* A registry call can be made by an idle thread holding an instance, or by a
\* callback that is running (re-entrant call).
CanCall(t) ==
    /\ ref[t] # None
    /\ IF Idle(t) THEN TRUE
       ELSE Depth(t) < MaxDepth /\ Top(t).pc = "incb"

\* Push frame f; the frame whose callback makes the call is marked `nested`.
\* (its ghost copy ev0 of the dict at call start is dropped from then on).
Push(t, f) ==
    IF Idle(t) THEN <<f>>
    ELSE Append([stack[t] EXCEPT ![Len(stack[t])].nested = TRUE,
                                 ![Len(stack[t])].ev0 = EmptyDict], f)

SetTop(t, f) == [stack[t] EXCEPT ![Len(stack[t])] = f]

Init ==
    /\ instance = None
    /\ nobj = 0
    /\ events = [i \in InstIds |-> EmptyDict]
    /\ regOrder = [i \in InstIds |-> [e \in Events |-> <<>>]]
    /\ aborted = {}
    /\ stack = [t \in Threads |-> <<>>]
    /\ ref = [t \in Threads |-> None]

\* ------------------------------------------------- get_instance / __init__
InitGuard_Never(inst) == FALSE

\* `if EventDispatcher.__instance is not None` of __init__
InitGuard(inst) == inst # None

GetInstanceCall(t) ==
    /\ Idle(t)
    /\ stack' = [stack EXCEPT ![t] =
                   <<[Frame("get_instance", "gi_check", None, "") EXCEPT !.inst0 = instance]>>]
    /\ UNCHANGED <<instance, nobj, events, regOrder, aborted, ref>>

\* line 24: if EventDispatcher.__instance is None: EventDispatcher()
GetInstanceCheck(t) ==
    /\ ~Idle(t) /\ Top(t).pc = "gi_check"
    /\ stack' = [stack EXCEPT ![t] =
                   SetTop(t, [Top(t) EXCEPT !.pc = IF instance = None THEN "init_check"
                                                   ELSE "gi_ret"])]
    /\ UNCHANGED <<instance, nobj, events, regOrder, aborted, ref>>

\* a direct construction EventDispatcher() by user code
ConstructCall(t) ==
    /\ Idle(t)
    /\ stack' = [stack EXCEPT ![t] =
                   <<[Frame("construct", "init_check", None, "")
                        EXCEPT !.inst0 = instance,
                               !.ev0 = IF instance = None THEN EmptyDict
                                       ELSE events[instance]]>>]
    /\ UNCHANGED <<instance, nobj, events, regOrder, aborted, ref>>

InitCheck_AssignFirst(t) ==
    /\ ~Idle(t) /\ Top(t).pc = "init_check"
    /\ nobj < NThreads + 1
    /\ nobj' = nobj + 1
    /\ instance' = nobj + 1
    /\ stack' = [stack EXCEPT ![t] =
                   SetTop(t, IF InitGuard(instance)
                             THEN [Top(t) EXCEPT !.pc = "raised", !.err = "InstantiationError"]
                             ELSE [Top(t) EXCEPT !.pc = "init_events"])]
    /\ UNCHANGED <<events, regOrder, aborted, ref>>

\* lines 30-31: raise InstantiationError when an instance exists
InitCheck(t) ==
    /\ ~Idle(t) /\ Top(t).pc = "init_check"
    /\ stack' = [stack EXCEPT ![t] =
                   SetTop(t, IF InitGuard(instance)
                             THEN [Top(t) EXCEPT !.pc = "raised", !.err = "InstantiationError"]
                             ELSE [Top(t) EXCEPT !.pc = "init_events"])]
    /\ UNCHANGED <<instance, nobj, events, regOrder, aborted, ref>>

\* line 33: self.events = {}
InitEvents(t) ==
    /\ ~Idle(t) /\ Top(t).pc = "init_events"
    /\ nobj < NThreads + 1
    /\ nobj' = nobj + 1
    /\ events' = [events EXCEPT ![nobj + 1] = EmptyDict]
    /\ stack' = [stack EXCEPT ![t] =
                   SetTop(t, [Top(t) EXCEPT !.pc = "init_assign", !.obj = nobj + 1])]
    /\ UNCHANGED <<instance, regOrder, aborted, ref>>

\* line 35: EventDispatcher.__instance = self
InitAssign(t) ==
    /\ ~Idle(t) /\ Top(t).pc = "init_assign"
    /\ instance' = Top(t).obj
    /\ stack' = [stack EXCEPT ![t] =
                   SetTop(t, IF Top(t).op = "get_instance"
                             THEN [Top(t) EXCEPT !.pc = "gi_ret"]
                             ELSE [Top(t) EXCEPT !.pc = "done", !.ret = Top(t).obj])]
    /\ UNCHANGED <<nobj, events, regOrder, aborted, ref>>

\* line 27: return EventDispatcher.__instance
GetInstanceReturn(t) ==
    /\ ~Idle(t) /\ Top(t).pc = "gi_ret"
    /\ stack' = [stack EXCEPT ![t] =
                   SetTop(t, [Top(t) EXCEPT !.pc = "done", !.ret = instance])]
    /\ UNCHANGED <<instance, nobj, events, regOrder, aborted, ref>>

\* ----------------------------------------------------------------- register
AppendEntry_Front(l, x) == <<x>> \o l

AppendEntry_Dedup(l, x) ==
    IF \E k \in 1..Len(l) : l[k] = x THEN l ELSE Append(l, x)

\* list.append
AppendEntry(l, x) == Append(l, x)

\* lines 62-63: if event not in self.events: self.events[event] = []
EnsureList(d, e) == IF HasKey(d, e) THEN d ELSE SetKey(d, e, <<>>)

\* getattr(obj, 'run' if not method else method) raises AttributeError
Resolves(obj, method) == hasattr(obj, NotifyName(method))

\* lines 62-70: the dict after register(event, obj, method).  The list is
\* created, and looked up for its append, before getattr is evaluated.
RegisterStore(d, e, obj, method) ==
    LET d1 == EnsureList(d, e)
    IN  IF Resolves(obj, method)
        THEN SetKey(d1, e, AppendEntry(d1[e], MakeEntry(e, obj, method)))
        ELSE d1

Register(t, e, obj, method) ==
    /\ CanCall(t)
    /\ LET i  == ref[t]
           d  == events[i]
           ok == Resolves(obj, method)
       IN  /\ (ok /\ HasKey(d, e)) => Len(d[e]) < MaxLen
           /\ events' = [events EXCEPT ![i] = RegisterStore(d, e, obj, method)]
           /\ regOrder' = IF ok
                          THEN [regOrder EXCEPT ![i][e] = Append(@, MakeEntry(e, obj, method))]
                          ELSE regOrder
           /\ stack' = [stack EXCEPT ![t] =
                          Push(t, [Frame("register", IF ok THEN "done" ELSE "raised", i, e)
                                     EXCEPT !.err = IF ok THEN "" ELSE "AttributeError",
                                            !.ev0 = d,
                                            !.res = IF ok THEN <<MakeEntry(e, obj, method)>>
                                                    ELSE <<>>])]
    /\ UNCHANGED <<instance, nobj, aborted, ref>>

\* ---------------------------------------------------------- get_subscribers
\* line 46: [run_callback for (run_callback, _) in self.events[event]]
RunCallbacks(l) == [k \in 1..Len(l) |-> l[k].run]

GetSubscribers(t, e) ==
    /\ Idle(t) /\ ref[t] # None
    /\ LET d == events[ref[t]]
       IN  stack' = [stack EXCEPT ![t] =
                       <<IF HasKey(d, e)
                         THEN [Frame("get_subscribers", "done", ref[t], e)
                                 EXCEPT !.res = RunCallbacks(d[e]), !.ev0 = d]
                         ELSE [Frame("get_subscribers", "raised", ref[t], e)
                                 EXCEPT !.err = "KeyError", !.ev0 = d]>>]
    /\ UNCHANGED <<instance, nobj, events, regOrder, aborted, ref>>

\* ------------------------------------------------------ dispatch, unregister
\* The list object a loop walks.
CurList(f) == IF f.att THEN events[f.self][f.ev] ELSE f.lst

NextEntry_Backwards(l, idx) == l[Len(l) - idx]

\* the list iterator's next item, idx items having been yielded
NextEntry(l, idx) == l[idx + 1]

LoopFrame_KeyError(op, i, e) ==
    LET d == events[i]
    IN  IF ~HasKey(d, e)
        THEN [Frame(op, "raised", i, e) EXCEPT !.ev0 = d, !.err = "KeyError"]
        ELSE [Frame(op, "loop", i, e) EXCEPT !.att = TRUE, !.snap = d[e], !.ev0 = d]

\* lines 82-85 / 97-100: the early return, else the loop over self.events[event]
LoopFrame(op, i, e) ==
    LET d == events[i]
    IN  IF ~HasKey(d, e)
        THEN [Frame(op, "done", i, e) EXCEPT !.ev0 = d]
        ELSE [Frame(op, "loop", i, e) EXCEPT !.att = TRUE, !.snap = d[e], !.ev0 = d]

Forward_Nothing(kw) == EmptyDict

\* **kwargs at the call site: the callback receives a dict of its own with the
\* items of kwargs
Forward(kw) == [k \in DOMAIN kw |-> kw[k]]

DispatchCall(t, e, kw) ==
    /\ CanCall(t)
    /\ stack' = [stack EXCEPT ![t] =
                   Push(t, [LoopFrame("dispatch", ref[t], e) EXCEPT !.kw = kw])]
    /\ UNCHANGED <<instance, nobj, events, regOrder, aborted, ref>>

\* lines 85-86: the next entry of the list: run_callback(**kwargs)
DispatchInvoke(t) ==
    /\ ~Idle(t) /\ Top(t).op = "dispatch" /\ Top(t).pc = "loop"
    /\ Top(t).idx < Len(CurList(Top(t)))
    /\ stack' = [stack EXCEPT ![t] =
                   SetTop(t, [Top(t) EXCEPT !.pc = "incb",
                                            !.idx = @ + 1,
                                            !.inv = Append(@, NextEntry(CurList(Top(t)), Top(t).idx)),
                                            !.args = Append(@, Forward(Top(t).kw))])]
    /\ UNCHANGED <<instance, nobj, events, regOrder, aborted, ref>>

DispatchEnd_Consume(t) ==
    /\ ~Idle(t) /\ Top(t).op = "dispatch" /\ Top(t).pc = "loop"
    /\ Top(t).idx >= Len(CurList(Top(t)))
    /\ stack' = [stack EXCEPT ![t] = SetTop(t, [Top(t) EXCEPT !.pc = "done"])]
    /\ events' = [events EXCEPT ![Top(t).self] = DelKey(@, Top(t).ev)]
    /\ UNCHANGED <<instance, nobj, regOrder, aborted, ref>>

\* line 85: the list is exhausted, dispatch returns
DispatchEnd(t) ==
    /\ ~Idle(t) /\ Top(t).op = "dispatch" /\ Top(t).pc = "loop"
    /\ Top(t).idx >= Len(CurList(Top(t)))
    /\ stack' = [stack EXCEPT ![t] = SetTop(t, [Top(t) EXCEPT !.pc = "done"])]
    /\ UNCHANGED <<instance, nobj, events, regOrder, aborted, ref>>

UnregisterCall(t, e) ==
    /\ CanCall(t)
    /\ stack' = [stack EXCEPT ![t] = Push(t, LoopFrame("unregister", ref[t], e))]
    /\ UNCHANGED <<instance, nobj, events, regOrder, aborted, ref>>

\* lines 100-102: the next entry: if unregister_callback: unregister_callback()
UnregisterInvoke(t) ==
    /\ ~Idle(t) /\ Top(t).op = "unregister" /\ Top(t).pc = "loop"
    /\ Top(t).idx < Len(CurList(Top(t)))
    /\ LET entry == NextEntry(CurList(Top(t)), Top(t).idx)
       IN  stack' = [stack EXCEPT ![t] =
                       SetTop(t, IF entry.unreg # NoCallback
                                 THEN [Top(t) EXCEPT !.pc = "incb", !.idx = @ + 1,
                                                     !.inv = Append(@, entry)]
                                 ELSE [Top(t) EXCEPT !.idx = @ + 1])]
    /\ UNCHANGED <<instance, nobj, events, regOrder, aborted, ref>>

\* The frames walking the list of e lose the dict's reference to it.
Detach(stk, i, e) ==
    [k \in 1..Len(stk) |->
        IF stk[k].self = i /\ stk[k].ev = e /\ stk[k].att
        THEN [stk[k] EXCEPT !.att = FALSE, !.lst = events[i][e]]
        ELSE stk[k]]

DelEvent_KeepKey(d, e) == SetKey(d, e, <<>>)

DelEvent_First(d, e) == IF d[e] = <<>> THEN DelKey(d, e) ELSE SetKey(d, e, Tail(d[e]))

DelEvent_Clear(d, e) == EmptyDict

\* line 104: del self.events[event]
DelEvent(d, e) == DelKey(d, e)

UnregisterDel(t) ==
    /\ ~Idle(t) /\ Top(t).op = "unregister" /\ Top(t).pc = "loop"
    /\ Top(t).idx >= Len(CurList(Top(t)))
    /\ LET i == Top(t).self
           e == Top(t).ev
       IN  IF HasKey(events[i], e)
           THEN /\ events' = [events EXCEPT ![i] = DelEvent(@, e)]
                /\ aborted' = aborted \ {<<i, e>>}
                /\ regOrder' = [regOrder EXCEPT ![i] =
                                  [x \in Events |->
                                     IF HasKey(events'[i], x) THEN @[x] ELSE <<>>]]
                /\ stack' = [u \in Threads |->
                               IF u = t
                               THEN [Detach(stack[t], i, e) EXCEPT ![Len(stack[t])].pc = "done"]
                               ELSE Detach(stack[u], i, e)]
           ELSE /\ stack' = [stack EXCEPT ![t] =
                               SetTop(t, [Top(t) EXCEPT !.pc = "raised", !.err = "KeyError"])]
                /\ UNCHANGED <<events, regOrder, aborted>>
    /\ UNCHANGED <<instance, nobj, ref>>

\* ---------------------------------------------------------------- callbacks
\* The callback that was invoked returns.
CallbackReturn(t) ==
    /\ ~Idle(t) /\ Top(t).pc = "incb"
    /\ stack' = [stack EXCEPT ![t] = SetTop(t, [Top(t) EXCEPT !.pc = "loop"])]
    /\ UNCHANGED <<instance, nobj, events, regOrder, aborted, ref>>

CallbackRaise_Cleanup(t) ==
    /\ ~Idle(t) /\ Top(t).pc = "incb"
    /\ stack' = [stack EXCEPT ![t] =
                   SetTop(t, [Top(t) EXCEPT !.pc = "raised", !.err = "CallbackError"])]
    /\ events' = IF Top(t).op = "unregister" /\ HasKey(events[Top(t).self], Top(t).ev)
                 THEN [events EXCEPT ![Top(t).self] = DelKey(@, Top(t).ev)]
                 ELSE events
    /\ UNCHANGED <<instance, nobj, regOrder, aborted, ref>>

\* The callback raises; neither loop catches anything.
CallbackRaise(t) ==
    /\ ~Idle(t) /\ Top(t).pc = "incb"
    /\ stack' = [stack EXCEPT ![t] =
                   SetTop(t, [Top(t) EXCEPT !.pc = "raised", !.err = "CallbackError"])]
    /\ UNCHANGED <<instance, nobj, events, regOrder, aborted, ref>>

\* --------------------------------------------------------- return and raise
\* A call returns to its caller: the thread's top level, or the callback that
\* made it.
Return(t) ==
    /\ ~Idle(t) /\ Top(t).pc = "done"
    /\ stack' = [stack EXCEPT ![t] = SubSeq(@, 1, Len(@) - 1)]
    /\ ref' = IF Top(t).op \in {"get_instance", "construct"}
              THEN [ref EXCEPT ![t] = Top(t).ret]
              ELSE ref
    /\ UNCHANGED <<instance, nobj, events, regOrder, aborted>>

\* An exception leaves the call; in a callback it leaves the loop that invoked
\* the callback too.
Unwind(t) ==
    /\ ~Idle(t) /\ Top(t).pc = "raised"
    /\ stack' = [stack EXCEPT ![t] =
                   IF Len(@) = 1 THEN <<>>
                   ELSE [SubSeq(@, 1, Len(@) - 1) EXCEPT
                            ![Len(@) - 1].pc = "raised",
                            ![Len(@) - 1].err = Top(t).err]]
    /\ aborted' = IF Top(t).op = "unregister" /\ Top(t).att
                  THEN aborted \cup {<<Top(t).self, Top(t).ev>>}
                  ELSE aborted
    /\ UNCHANGED <<instance, nobj, events, regOrder, ref>>

\* ------------------------------------------------------------ specifications
\* Sequential use: one thread, callbacks may re-enter.
Next ==
    \E t \in SeqThreads :
        \/ GetInstanceCall(t)
        \/ GetInstanceCheck(t)
        \/ ConstructCall(t)
        \/ InitCheck(t)
        \/ InitEvents(t)
        \/ InitAssign(t)
        \/ GetInstanceReturn(t)
        \/ \E e \in Events, obj \in Subs, method \in MethodArgs : Register(t, e, obj, method)
        \/ \E e \in Events : GetSubscribers(t, e)
        \/ \E e \in Events : DispatchCall(t, e, KwArgs)
        \/ DispatchInvoke(t)
        \/ DispatchEnd(t)
        \/ \E e \in Events : UnregisterCall(t, e)
        \/ UnregisterInvoke(t)
        \/ UnregisterDel(t)
        \/ CallbackReturn(t)
        \/ CallbackRaise(t)
        \/ Return(t)
        \/ Unwind(t)

Spec == Init /\ [][Next]_vars

\* Sequential use on one event, with every payload: the named arguments do
\* not influence any branch of the code, so the other specifications pass one.
NextArgs ==
    \E t \in SeqThreads :
        \/ GetInstanceCall(t)
        \/ GetInstanceCheck(t)
        \/ InitCheck(t)
        \/ InitEvents(t)
        \/ InitAssign(t)
        \/ GetInstanceReturn(t)
        \/ \E obj \in Subs, method \in MethodArgs : Register(t, "a", obj, method)
        \/ \E kw \in Payloads : DispatchCall(t, "a", kw)
        \/ DispatchInvoke(t)
        \/ DispatchEnd(t)
        \/ UnregisterCall(t, "a")
        \/ UnregisterInvoke(t)
        \/ UnregisterDel(t)
        \/ CallbackReturn(t)
        \/ CallbackRaise(t)
        \/ Return(t)
        \/ Unwind(t)

SpecArgs == Init /\ [][NextArgs]_vars

\* Concurrent first access: the threads interleave between the statements of
\* get_instance and __init__, and register on the instance they got.
NextConc ==
    \E t \in Threads :
        \/ GetInstanceCall(t)
        \/ GetInstanceCheck(t)
        \/ InitCheck(t)
        \/ InitEvents(t)
        \/ InitAssign(t)
        \/ GetInstanceReturn(t)
        \/ Register(t, "a", "S1", "None")
        \/ Return(t)
        \/ Unwind(t)

SpecConc == Init /\ [][NextConc]_vars

\* =================================================================== claims
AllFrames == UNION {{stack[t][k] : k \in 1..Len(stack[t])} : t \in Threads}

IsPrefix(p, l) == Len(p) <= Len(l) /\ SubSeq(l, 1, Len(p)) = p

HasTeardown(entry) == entry.unreg # NoCallback

\* C1: a dispatch(E) that returns, no other dispatcher call having been made
\* while it ran, has invoked the notify callbacks of exactly the entries
\* registered to E at that time, once each, in the order of their register
\* calls, whatever was registered, dispatched or unregistered before.
C1_DispatchInRegistrationOrder ==
    \A f \in AllFrames :
        (f.op = "dispatch" /\ f.pc = "done" /\ ~f.nested)
            => f.inv = regOrder[f.self][f.ev]

C1_Witness ==
    \E f \in AllFrames :
        /\ f.op = "dispatch" /\ f.pc = "done" /\ ~f.nested
        /\ Len(f.inv) = 2 /\ f.inv[1] # f.inv[2]
        /\ \E e \in Events : e # f.ev /\ HasKey(events[f.self], e)

\* C2: a register call that fails because the subscriber lacks the notify
\* capability leaves the dict as it was before the call.
C2_FailedRegisterLeavesDict ==
    \A f \in AllFrames :
        (f.op = "register" /\ f.pc = "raised") => events[f.self] = f.ev0

\* C3: every key of the dict maps to a non-empty list.
C3_NoEmptyList ==
    \A i \in InstIds : \A e \in DOMAIN events[i] : events[i][e] # <<>>

\* C4: an unregister(E) that returns, its teardown callbacks not having
\* called the dispatcher, has invoked the teardown of each entry of E that has
\* one, once each, in list order, and nothing for the other entries, and E is
\* no longer a key; get_subscribers of an event that is no key raises
\* KeyError, and otherwise returns.
C4_UnregisterTearsDownAndRemoves ==
    \A f \in AllFrames :
        /\ (f.op = "unregister" /\ f.pc = "done" /\ ~f.nested)
              => /\ f.inv = SelectSeq(f.snap, HasTeardown)
                 /\ ~HasKey(events[f.self], f.ev)
        /\ (f.op = "get_subscribers")
              => /\ (f.pc = "raised") <=> ~HasKey(events[f.self], f.ev)
                 /\ (f.pc = "raised") => f.err = "KeyError"

C4_Witness ==
    \E f \in AllFrames :
        /\ f.op = "unregister" /\ f.pc = "done" /\ ~f.nested
        /\ Len(f.snap) = 2 /\ Len(f.inv) = 2 /\ f.inv[1] # f.inv[2]

\* C5: with one thread, at most one dispatcher object is ever initialised,
\* every get_instance() returns it (the same object as any earlier call), and
\* a direct construction begun when an instance exists raises
\* InstantiationError without initialising anything.
C5_SingletonSequential ==
    /\ nobj <= 1
    /\ \A t \in SeqThreads : \A k \in 1..Len(stack[t]) :
         LET f == stack[t][k] IN
         /\ (f.op = "get_instance" /\ f.pc = "done")
               => /\ f.ret # None /\ f.ret = instance
                  /\ ref[t] # None => f.ret = ref[t]
         /\ (f.op = "construct" /\ f.inst0 # None)
               => /\ f.pc \in {"init_check", "raised"}
                  /\ f.pc = "raised" => f.err = "InstantiationError"

C5_Witness ==
    \E t \in SeqThreads :
        /\ ~Idle(t) /\ Top(t).op = "construct" /\ Top(t).pc = "raised"
        /\ ref[t] # None /\ ref[t] = instance

\* C6: with threads interleaving in get_instance, one object is initialised,
\* no get_instance raises, all callers get the same instance, and the
\* instance a caller got stays the singleton.
C6_ConstructOnce ==
    /\ nobj <= 1
    /\ \A f \in AllFrames : f.op = "get_instance" => f.pc # "raised"
    /\ \A t \in Threads : ref[t] # None => ref[t] = instance

\* C7: a dispatch(E) that returns has invoked exactly the entries that were in
\* E's list when it started, also when register or unregister ran meanwhile.
C7_DispatchInvokesSnapshot ==
    \A f \in AllFrames :
        (f.op = "dispatch" /\ f.pc = "done") => f.inv = f.snap

\* C8 as claimed: while an unregister(E) is in progress, or was left by a
\* raising teardown, E is absent or its list is the list that existed when
\* the unregister started.
C8_ListAsAtUnregisterStart ==
    \A f \in AllFrames :
        (f.op = "unregister" /\ f.pc \in {"loop", "incb", "raised"})
            => \/ ~HasKey(events[f.self], f.ev)
               \/ events[f.self][f.ev] = f.snap

\* Some step removes part of the list of e or changes an entry of it.
ListShrinks(i, e) ==
    /\ HasKey(events[i], e)
    /\ HasKey(events'[i], e)
    /\ ~IsPrefix(events[i][e], events'[i][e])

\* C8, amended: removal is all-or-nothing.  No step takes entries out of a
\* list that stays in the dict: a list only grows at its end until its key is
\* deleted whole.  So while an unregister(E) is in progress or was left by a
\* raising teardown, and E has not been deleted since it started, E's list
\* begins with the complete list that existed at the start.
C8_RemovalAllOrNothing ==
    /\ [][\A i \in InstIds : \A e \in Events : ~ListShrinks(i, e)]_vars
    /\ [](\A f \in AllFrames :
            (f.op = "unregister" /\ f.pc \in {"loop", "incb", "raised"} /\ f.att)
                => /\ HasKey(events[f.self], f.ev)
                   /\ IsPrefix(f.snap, events[f.self][f.ev]))

C8_Witness ==
    \E f \in AllFrames :
        /\ f.op = "unregister" /\ f.pc = "raised" /\ f.err = "CallbackError"
        /\ Len(f.snap) = 2 /\ Len(f.inv) = 1
        /\ HasKey(events[f.self], f.ev) /\ events[f.self][f.ev] = f.snap

\* C9: when a notify callback raises, the dispatch is left by the exception:
\* it has invoked the entries of the list up to the raising one, once each and
\* in order, and none after it; if no callback called the dispatcher, these
\* are the first entries of the list at dispatch start and the dict is as it
\* was at dispatch start.  The exception then reaches the caller.
C9_FailingNotify ==
    /\ [](\A f \in AllFrames :
            (f.op = "dispatch" /\ f.pc = "raised")
                => /\ Len(f.inv) >= 1 /\ Len(f.inv) = f.idx
                   /\ IsPrefix(f.inv, CurList(f))
                   /\ ~f.nested => /\ IsPrefix(f.inv, f.snap)
                                   /\ f.err = "CallbackError"
                                   /\ events[f.self] = f.ev0)
    /\ [][\A t \in Threads :
            (~Idle(t) /\ Top(t).op = "dispatch" /\ Top(t).pc = "raised")
                => \/ stack'[t] = stack[t]
                   \/ /\ Len(stack'[t]) = Len(stack[t]) - 1
                      /\ Len(stack'[t]) > 0
                            => /\ stack'[t][Len(stack'[t])].pc = "raised"
                               /\ stack'[t][Len(stack'[t])].err = Top(t).err]_vars

C9_Witness ==
    \E f \in AllFrames :
        /\ f.op = "dispatch" /\ f.pc = "raised" /\ ~f.nested
        /\ Len(f.snap) = 2 /\ Len(f.inv) = 1

\* The presence or the list of event e of instance i changes in this step.
EventChanges(i, e) ==
    \/ HasKey(events[i], e) # HasKey(events'[i], e)
    \/ HasKey(events[i], e) /\ HasKey(events'[i], e) /\ events[i][e] # events'[i][e]

\* C10: a dispatch or unregister of event A invokes callbacks only of entries
\* registered to A, and a step that changes the presence or the list of an
\* event B is a step of a register or unregister call on B itself.
C10_NoCrossEventLeak ==
    /\ [](\A f \in AllFrames : \A k \in 1..Len(f.inv) : f.inv[k].ev = f.ev)
    /\ [][\A i \in InstIds : \A e \in Events :
            EventChanges(i, e)
                => \E t \in Threads :
                      /\ stack'[t] # stack[t]
                      /\ stack'[t] # <<>>
                      /\ stack'[t][Len(stack'[t])].ev = e
                      /\ stack'[t][Len(stack'[t])].self = i
                      /\ stack'[t][Len(stack'[t])].op \in {"register", "unregister"}]_vars

C10_Witness ==
    \E f \in AllFrames : \E e \in Events :
        /\ f.op = "unregister" /\ f.pc = "done" /\ Len(f.inv) = 2
        /\ e # f.ev /\ HasKey(events[f.self], e) /\ Len(events[f.self][e]) = 2

\* C11: dispatch itself never changes the dict: while and after a dispatch(E)
\* whose callbacks make no dispatcher call, for a known or an unknown E, the
\* dict is the dict of the moment dispatch was called, so no event has moved
\* between absent and present.
C11_DispatchLeavesDict ==
    \A f \in AllFrames :
        (f.op = "dispatch" /\ ~f.nested)
            => /\ events[f.self] = f.ev0
               /\ \A e \in Events : HasKey(events[f.self], e) <=> HasKey(f.ev0, e)

C11_Witness ==
    \E f \in AllFrames :
        /\ f.op = "dispatch" /\ f.pc = "done" /\ ~f.nested
        /\ Len(f.inv) = 2
        /\ events[f.self] = f.ev0
        /\ \E e \in Events : ~HasKey(events[f.self], e)

\* C12: get_subscribers(E) raises the not-found error whenever no subscriber
\* is registered to E, never returns an empty list, and leaves the dict as it
\* was.
C12_GetSubscribersNotFound ==
    \A f \in AllFrames :
        f.op = "get_subscribers"
            => /\ regOrder[f.self][f.ev] = <<>> => (f.pc = "raised" /\ f.err = "KeyError")
               /\ f.pc = "done" => f.res # <<>>
               /\ events[f.self] = f.ev0

\* C13: a dispatch of an event no subscriber is registered to invokes no
\* callback, raises nothing and leaves the dict as it was.
C13_DispatchNoSubscribers ==
    \A f \in AllFrames :
        (f.op = "dispatch" /\ ~f.nested /\ regOrder[f.self][f.ev] = <<>>)
            => /\ f.pc \in {"loop", "done"}
               /\ f.inv = <<>> /\ f.args = <<>> /\ f.idx = 0
               /\ events[f.self] = f.ev0

C13_Witness ==
    \E f \in AllFrames : \E e \in Events :
        /\ f.op = "dispatch" /\ f.pc = "done"
        /\ ~HasKey(events[f.self], f.ev)
        /\ e # f.ev /\ regOrder[f.self][e] # <<>>

\* C14: an unregister of an event no subscriber is registered to invokes no
\* callback, raises nothing and leaves the dict as it was.
C14_UnregisterNoSubscribers ==
    \A f \in AllFrames :
        (f.op = "unregister" /\ ~f.nested /\ f.snap = <<>>)
            => /\ f.pc \in {"loop", "done"}
               /\ f.inv = <<>>
               /\ events[f.self] = f.ev0

\* C15: a direct construction that raises InstantiationError leaves the
\* singleton alone: __instance is the instance that existed when the
\* construction began, its dict is as it was, no object was initialised, and
\* the instance callers hold is still the singleton.
C15_FailedConstructionLeavesSingleton ==
    \A t \in SeqThreads : \A k \in 1..Len(stack[t]) :
        LET f == stack[t][k] IN
        (f.op = "construct" /\ f.pc = "raised")
            => /\ f.err = "InstantiationError"
               /\ f.inst0 # None /\ instance = f.inst0
               /\ events[instance] = f.ev0
               /\ nobj = 1
               /\ ref[t] # None => ref[t] = instance

C15_Witness ==
    \E t \in SeqThreads :
        /\ ~Idle(t) /\ Top(t).op = "construct" /\ Top(t).pc = "raised"
        /\ ref[t] = instance
        /\ \E e \in Events : HasKey(events[instance], e) /\ Len(events[instance][e]) = 2

\* How often x occurs in the sequence l.
Count(l, x) == Cardinality({k \in 1..Len(l) : l[k] = x})

\* C16: a successful register(E, s) leaves the dict as it was but for E, whose
\* list is the former list (the empty one if E was absent) with the one new
\* entry at its end, also when an equal entry is in it already; a dispatch
\* invokes each entry's notify as often as the entry was registered, and an
\* unregister each teardown as often as its entry is in the list.
C16_RegisterAppendsOne ==
    \A f \in AllFrames :
        /\ (f.op = "register" /\ f.pc = "done")
              => /\ Len(f.res) = 1
                 /\ events[f.self] =
                       SetKey(f.ev0, f.ev,
                              Append(IF HasKey(f.ev0, f.ev) THEN f.ev0[f.ev] ELSE <<>>,
                                     f.res[1]))
        /\ (f.op = "dispatch" /\ f.pc = "done" /\ ~f.nested)
              => \A k \in 1..Len(f.inv) :
                    Count(f.inv, f.inv[k]) = Count(regOrder[f.self][f.ev], f.inv[k])
        /\ (f.op = "unregister" /\ f.pc = "done" /\ ~f.nested)
              => \A k \in 1..Len(f.snap) :
                    HasTeardown(f.snap[k])
                        => Count(f.inv, f.snap[k]) = Count(f.snap, f.snap[k])

C16_Witness ==
    \E f \in AllFrames :
        /\ f.op = "unregister" /\ f.pc = "done" /\ ~f.nested
        /\ Len(f.inv) = 2 /\ f.inv[1] = f.inv[2]
        /\ f.snap = f.inv

\* C17: every notify callback a dispatch(E, payload) invokes receives exactly
\* the named arguments given to the dispatch, for each payload of Payloads.
C17_PayloadForwarded ==
    \A f \in AllFrames :
        f.op = "dispatch"
            => /\ f.kw \in Payloads
               /\ Len(f.args) = Len(f.inv)
               /\ \A k \in 1..Len(f.args) : f.args[k] = f.kw

C17_Witness ==
    \E f \in AllFrames :
        /\ f.op = "dispatch" /\ f.pc = "done"
        /\ f.kw = [x |-> 1]
        /\ Len(f.args) = 2 /\ f.inv[1] # f.inv[2]

\* C18: an unregister(E) that a raising teardown leaves (no callback having
\* called the dispatcher) has invoked the teardowns of the list up to the
\* raising one and none after it, the exception reaches the caller, and E is
\* still a key with its complete list, the dict being as it was at the call.
\* A list that has been through such an unregister stays registered, with
\* its teardown entries, until an unregister deletes it, so a later
\* unregister(E) begins again with the first teardown.
C18_FailingTeardown ==
    /\ [](\A f \in AllFrames :
            (f.op = "unregister" /\ f.pc = "raised" /\ ~f.nested)
                => /\ f.err = "CallbackError"
                   /\ f.idx >= 1 /\ f.idx <= Len(f.snap)
                   /\ HasTeardown(f.snap[f.idx])
                   /\ f.inv = SelectSeq(SubSeq(f.snap, 1, f.idx), HasTeardown)
                   /\ HasKey(events[f.self], f.ev)
                   /\ events[f.self][f.ev] = f.snap
                   /\ events[f.self] = f.ev0)
    /\ [](\A p \in aborted :
            /\ HasKey(events[p[1]], p[2])
            /\ \E k \in 1..Len(events[p[1]][p[2]]) : HasTeardown(events[p[1]][p[2]][k]))
    /\ [][\A t \in Threads :
            (~Idle(t) /\ Top(t).op = "unregister" /\ Top(t).pc = "raised")
                => \/ stack'[t] = stack[t]
                   \/ /\ Len(stack'[t]) = Len(stack[t]) - 1
                      /\ Len(stack'[t]) > 0
                            => /\ stack'[t][Len(stack'[t])].pc = "raised"
                               /\ stack'[t][Len(stack'[t])].err = Top(t).err]_vars

\* A teardown runs a second time for one registration: the list has been
\* through an unregister that a teardown left, and a later unregister has
\* invoked its teardowns again.
C18_Witness ==
    \E t \in Threads :
        /\ Len(stack[t]) = 1
        /\ Top(t).op = "unregister" /\ Top(t).att /\ ~Top(t).nested
        /\ <<Top(t).self, Top(t).ev>> \in aborted
        /\ Len(Top(t).inv) = 2

\* C19: a dispatch(E) ends when the notify callbacks of the finitely many
\* entries E had at dispatch start have returned: once as many callbacks
\* have returned as the list had entries at the start, nothing is left to
\* invoke and the dispatch returns.
C19_DispatchEndsAfterStartEntries ==
    \A f \in AllFrames :
        (f.op = "dispatch" /\ f.pc = "loop" /\ f.idx >= Len(f.snap))
            => f.idx >= Len(CurList(f))

====
